---- MODULE Spec2Model ----
(***************************************************************************)
(* File Organizer v2.4: the organizing engine of file_organizer.py.        *)
(*                                                                         *)
(* A path is the text of its absolute form, a sequence of tokens: "/" is   *)
(* the separator, "|" the undo log's delimiter, " " and "\n" are           *)
(* whitespace, every other token is a run of ordinary characters.  The     *)
(* file system maps the paths of regular files to their content; the undo  *)
(* log is a text file, a sequence of lines.                                *)
(***************************************************************************)
EXTENDS Integers, Sequences, FiniteSets, TLC

\* Bounds of the model.
MaxFiles == 2       \* files present under the source directory
MaxOps == 3         \* calls of process_directory / perform_undo in one behaviour
MaxRuns == 2        \* calls of process_directory in one behaviour of SpecAny
MaxFaults == 1      \* operating-system errors and user interference in one behaviour
MaxCats == 3        \* categories of a category map
MaxWorkers == 3     \* GUI: worker threads started in one behaviour

(***************************************************************************)
(* Text                                                                    *)
(***************************************************************************)
Whitespace == {" ", "\n"}

RECURSIVE lstrip(_)
lstrip(s) == IF s # <<>> /\ Head(s) \in Whitespace THEN lstrip(Tail(s)) ELSE s

RECURSIVE rstrip(_)
rstrip(s) ==
    IF s # <<>> /\ s[Len(s)] \in Whitespace THEN rstrip(SubSeq(s, 1, Len(s) - 1)) ELSE s

\* str.strip(): leading and trailing whitespace removed.
strip(s) == rstrip(lstrip(s))

\* str.split(sep): the fields between the occurrences of sep.
RECURSIVE split(_, _)
split(s, sep) ==
    IF \A i \in 1..Len(s) : s[i] # sep
    THEN <<s>>
    ELSE LET i == CHOOSE j \in 1..Len(s) : s[j] = sep /\ \A k \in 1..(j - 1) : s[k] # sep
         IN  <<SubSeq(s, 1, i - 1)>> \o split(SubSeq(s, i + 1, Len(s)), sep)

\* str.upper() of the transfer actions and of the first characters of the stems.
upper(text) ==
    CASE text = "move" -> "MOVE"
      [] text = "copy" -> "COPY"
      [] text = "x" -> "X"
      [] text = "p" -> "P"
      [] OTHER -> text

\* str.isalpha() of one character.
isalpha(char) == char \in {"x", "X", "p", "P"}

\* str.lower() of the file suffixes of the model.
lower(ext) ==
    CASE ext = ".TXT" -> ".txt"
      [] ext = ".JPG" -> ".jpg"
      [] OTHER -> ext

(***************************************************************************)
(* Paths (pathlib.Path)                                                    *)
(***************************************************************************)
source == <<"/", "s">>
dest == <<"/", "d">>

\* Path.__truediv__: parent / name.
Join(parent, name) == parent \o <<"/">> \o name

\* Path.parent: the text before the last separator.
RECURSIVE PathParent(_)
PathParent(p) ==
    IF p = <<>> THEN <<>>
    ELSE IF p[Len(p)] = "/" THEN SubSeq(p, 1, Len(p) - 1)
    ELSE PathParent(SubSeq(p, 1, Len(p) - 1))

\* Path.parents: every ancestor directory below the root.
RECURSIVE PathParents(_)
PathParents(p) ==
    LET q == PathParent(p) IN IF q = <<>> THEN {} ELSE {q} \cup PathParents(q)

IsPrefix(p, q) == Len(p) <= Len(q) /\ SubSeq(q, 1, Len(p)) = p

\* The suffixes of the model's file names (Path.suffix: from the last dot on).
Suffixes == {".txt", ".TXT", ".jpg", ".JPG", ".pdf"}

\* Path.name: the text after the last separator.
RECURSIVE PathName(_)
PathName(p) ==
    IF p = <<>> \/ p[Len(p)] = "/" THEN <<>>
    ELSE PathName(SubSeq(p, 1, Len(p) - 1)) \o <<p[Len(p)]>>

\* Path.suffix and Path.stem: a name that is only a suffix has no suffix.
PathSuffix(p) ==
    LET name == PathName(p)
    IN  IF Len(name) > 1 /\ name[Len(name)] \in Suffixes THEN name[Len(name)] ELSE ""

PathStem(p) ==
    LET name == PathName(p)
    IN  IF PathSuffix(p) = "" THEN name ELSE SubSeq(name, 1, Len(name) - 1)

SuffixText(suffix) == IF suffix = "" THEN <<>> ELSE <<suffix>>

(***************************************************************************)
(* The files of the source tree and the content each one holds.  What      *)
(* stat() reports belongs to the content.                                  *)
(***************************************************************************)
subfolder == Join(source, <<"sub">>)

Universe ==
    { Join(source, <<"x", ".txt">>),
      Join(subfolder, <<"x", ".txt">>),
      Join(source, <<"p", "|", "q", ".JPG">>),
      Join(source, <<"7", " ">>) }

ContentOf(file) ==
    CASE file = Join(source, <<"x", ".txt">>) -> "c1"
      [] file = Join(subfolder, <<"x", ".txt">>) -> "c2"
      [] file = Join(source, <<"p", "|", "q", ".JPG">>) -> "c3"
      [] OTHER -> "c4"

\* st_mtime as the local date datetime.fromtimestamp gives, and st_size in bytes.
Stat(content) ==
    CASE content = "c1" -> [year |-> "2023", month |-> 10, day |-> 26, st_size |-> 5]
      [] content = "c2" -> [year |-> "2023", month |-> 10, day |-> 26, st_size |-> 1048575]
      [] content = "c3" -> [year |-> "2023", month |-> 10, day |-> 7, st_size |-> 1048576]
      [] OTHER -> [year |-> "2024", month |-> 1, day |-> 7, st_size |-> 104857600]

(***************************************************************************)
(* The world the engine acts on: regular files (path -> content), the      *)
(* directories that exist, and the undo log in the working directory.      *)
(* An `os` record says which system calls of one step raise an error.      *)
(***************************************************************************)
NoLog == [exists |-> FALSE, lines |-> <<>>]

\* lookup: destination.exists() raises (an OSError other than "no such file", such
\* as a name that is too long or a directory that may not be searched).
NoError ==
    [stat |-> FALSE, unlink |-> FALSE, mkdir |-> FALSE, transfer |-> FALSE,
     log |-> FALSE, read |-> FALSE, lookup |-> FALSE]

OsOutcomes == [stat : BOOLEAN, unlink : BOOLEAN, mkdir : BOOLEAN, transfer : BOOLEAN,
               log : BOOLEAN, read : BOOLEAN, lookup : BOOLEAN]

Errors(os) ==
    Cardinality({k \in {"stat", "unlink", "mkdir", "transfer", "log", "read", "lookup"} :
                   os[k]})

\* Path.exists(), Path.is_dir(), Path.is_file()
exists(p, w) == p \in DOMAIN w.fs \/ p \in w.dirs
is_dir(p, w) == p \in w.dirs
is_file(p, w) == p \in DOMAIN w.fs

Remove(fs, gone) == [q \in DOMAIN fs \ gone |-> fs[q]]
Put(fs, p, content) == [q \in DOMAIN fs \cup {p} |-> IF q = p THEN content ELSE fs[q]]

\* shutil.rmtree(p): the directory and everything below it.
rmtree(p, w) ==
    [w EXCEPT !.fs = Remove(w.fs, {q \in DOMAIN w.fs : IsPrefix(p \o <<"/">>, q)}),
              !.dirs = {q \in w.dirs : q # p /\ ~IsPrefix(p \o <<"/">>, q)}]

\* Path.mkdir(parents=True, exist_ok=True)
mkdir(p, w) == [w EXCEPT !.dirs = w.dirs \cup {p} \cup PathParents(p)]

(***************************************************************************)
(* DEFAULT_CATEGORIES and build_ext_index                                  *)
(***************************************************************************)
DEFAULT_CATEGORIES ==
    << [cat |-> "Images", exts |-> {".jpg", ".jpeg", ".png", ".gif", ".bmp", ".tiff",
                                    ".webp", ".heic", ".svg", ".ico"}],
       [cat |-> "Videos", exts |-> {".mp4", ".mkv", ".avi", ".mov", ".wmv", ".flv",
                                    ".webm", ".m4v", ".mpeg", ".mpg"}],
       [cat |-> "Audio", exts |-> {".mp3", ".wav", ".aac", ".ogg", ".flac", ".m4a",
                                   ".wma", ".opus"}],
       [cat |-> "Documents", exts |-> {".pdf", ".docx", ".doc", ".txt", ".pptx", ".ppt",
                                       ".xlsx", ".xls", ".odt", ".csv", ".rtf", ".tex"}],
       [cat |-> "Archives", exts |-> {".zip", ".rar", ".7z", ".tar", ".gz", ".bz2",
                                      ".xz", ".iso"}],
       [cat |-> "Code", exts |-> {".py", ".js", ".html", ".css", ".java", ".cpp", ".c",
                                  ".h", ".json", ".xml", ".yaml", ".yml"}],
       [cat |-> "Executables", exts |-> {".exe", ".msi", ".apk", ".appimage", ".dmg",
                                         ".deb", ".rpm"}],
       [cat |-> "Others", exts |-> {}] >>

\* A faulty variant: a category that lists an extension again takes it over.
RECURSIVE ext_index_upto_last_wins(_, _)
ext_index_upto_last_wins(categories, n) ==
    IF n = 0 THEN <<>>
    ELSE LET idx == ext_index_upto_last_wins(categories, n - 1)
             new == {lower(e) : e \in {x \in categories[n].exts : x # ""}}
         IN  [e \in DOMAIN idx \cup new |->
                 IF e \in new THEN categories[n].cat ELSE idx[e]]

\* The index after the first n categories: an extension keeps its first category.
RECURSIVE ext_index_upto(_, _)
ext_index_upto(categories, n) ==
    IF n = 0 THEN <<>>
    ELSE LET idx == ext_index_upto(categories, n - 1)
             new == {lower(e) : e \in {x \in categories[n].exts : x # ""}} \ DOMAIN idx
         IN  [e \in DOMAIN idx \cup new |->
                 IF e \in DOMAIN idx THEN idx[e] ELSE categories[n].cat]

build_ext_index(categories) == ext_index_upto(categories, Len(categories))

\* The list `duplicates` after the first n categories, as a bag (the order of a
\* set's elements is Python's): the message (extension, category that has it,
\* category that lists it again) -> the number of times it was appended.
RECURSIVE duplicates_upto(_, _)
duplicates_upto(categories, n) ==
    IF n = 0 THEN <<>>
    ELSE LET dups == duplicates_upto(categories, n - 1)
             idx == ext_index_upto(categories, n - 1)
             cat == categories[n].cat
             exts == {x \in categories[n].exts : x # ""}
             Times(e_lower) ==
                 Cardinality({e \in exts : lower(e) = e_lower})
                 - (IF e_lower \in DOMAIN idx THEN 0 ELSE 1)
             Message(e_lower) ==
                 [ext |-> e_lower,
                  first |-> IF e_lower \in DOMAIN idx THEN idx[e_lower] ELSE cat,
                  cat |-> cat]
             new == {Message(lower(e)) : e \in {x \in exts : Times(lower(x)) > 0}}
         IN  [m \in DOMAIN dups \cup new |->
                 IF m \in DOMAIN dups THEN dups[m] ELSE Times(m.ext)]

\* What build_ext_index returns and what it reports in its one warning.
build_ext_index_call(categories) ==
    [idx |-> build_ext_index(categories),
     duplicates |-> duplicates_upto(categories, Len(categories))]

(***************************************************************************)
(* load_categories.  The persisted document is absent, cannot be opened    *)
(* ("unreadable"), is not UTF-8 text ("not_text"), is not JSON             *)
(* ("not_json"), is JSON but not an object of arrays ("wrong_shape"), or   *)
(* is an object of arrays ("object", with the category map it denotes).    *)
(***************************************************************************)
Document(kind, data) == [kind |-> kind, data |-> data]

HasCategory(categories, name) == \E i \in 1..Len(categories) : categories[i].cat = name

\* os: what happens to the write of the defaults when the document is absent.
\* The result is the returned map or a raised exception, with the document after.
load_categories(file, os) ==
    CASE file.kind = "absent" ->
            [kind |-> "return", value |-> DEFAULT_CATEGORIES,
             file |-> CASE os = "open_fails" -> file
                        [] os = "write_fails" -> Document("not_json", <<>>)
                        [] OTHER -> Document("object", DEFAULT_CATEGORIES)]
      [] file.kind \in {"unreadable", "not_json"} ->
            [kind |-> "return", value |-> DEFAULT_CATEGORIES, file |-> file]
      [] file.kind = "object" ->
            [kind |-> "return",
             value |-> IF HasCategory(file.data, "Others") THEN file.data
                       ELSE Append(file.data, [cat |-> "Others", exts |-> {}]),
             file |-> file]
      [] OTHER ->
            [kind |-> "raise", value |-> <<>>, file |-> file]

(***************************************************************************)
(* unique_path and resolve_conflict                                        *)
(***************************************************************************)
\* f" ({i})" for the numbers the model reaches.
Numbered ==
    <<" (1)", " (2)", " (3)", " (4)", " (5)", " (6)", " (7)", " (8)", " (9)", " (10)",
      " (11)", " (12)">>

Candidate(path, i) ==
    Join(PathParent(path), PathStem(path) \o <<Numbered[i]>> \o SuffixText(PathSuffix(path)))

\* A faulty variant: the first candidate is taken without a look at it.
FirstUnused_unchecked(path, i, w) == Candidate(path, i)

RECURSIVE FirstUnused(_, _, _)
FirstUnused(path, i, w) ==
    IF ~exists(Candidate(path, i), w) THEN Candidate(path, i) ELSE FirstUnused(path, i + 1, w)

unique_path(path, w) == IF ~exists(path, w) THEN path ELSE FirstUnused(path, 1, w)

\* The result is a path, None (skip) or a raised ValueError, with the world after it.
resolve_conflict(destination, conflict_policy, w, os) ==
    IF os.lookup THEN [kind |-> "raise", path |-> destination, w |-> w]
    ELSE IF ~exists(destination, w) THEN [kind |-> "path", path |-> destination, w |-> w]
    ELSE CASE conflict_policy = "skip" ->
                [kind |-> "None", path |-> destination, w |-> w]
           [] conflict_policy = "overwrite" ->
                [kind |-> "path", path |-> destination,
                 w |-> IF os.unlink THEN w
                       ELSE IF is_dir(destination, w) THEN rmtree(destination, w)
                       ELSE [w EXCEPT !.fs = Remove(w.fs, {destination})]]
           [] conflict_policy = "rename" ->
                [kind |-> "path", path |-> unique_path(destination, w), w |-> w]
           [] OTHER ->
                [kind |-> "raise", path |-> destination, w |-> w]

(***************************************************************************)
(* log_undo_operation and do_transfer                                      *)
(***************************************************************************)
\* f"{action.upper()}|{src.resolve()}|{dst.resolve()}\n"
LogLine(action, src, dst) == <<upper(action), "|">> \o src \o <<"|">> \o dst \o <<"\n">>

\* A faulty variant: the log is opened for writing, not for appending.
log_undo_operation_rewriting(action, src, dst, w, os) ==
    IF os.log THEN w
    ELSE [w EXCEPT !.undo_log =
            [exists |-> TRUE, lines |-> <<LogLine(action, src, dst)>>]]

\* Append one line; an IOError is logged and swallowed.
log_undo_operation(action, src, dst, w, os) ==
    IF os.log THEN w
    ELSE [w EXCEPT !.undo_log =
            [exists |-> TRUE, lines |-> Append(w.undo_log.lines, LogLine(action, src, dst))]]

\* shutil.move / shutil.copy2 onto dst (an existing file at dst is replaced).
Moved(src, dst, w) == [w EXCEPT !.fs = Put(Remove(w.fs, {src}), dst, w.fs[src])]
Copied(src, dst, w) == [w EXCEPT !.fs = Put(w.fs, dst, w.fs[src])]

\* Every exception is caught and turns into the result False.
\* A faulty variant: the transfer is logged before it is attempted, so that a
\* transfer that fails leaves its line in the log.
do_transfer_logging_first(src, dst, action, dry_run, w, os) ==
    IF os.mkdir THEN [result |-> "False", w |-> w, mid |-> w]
    ELSE LET w1 == mkdir(PathParent(dst), w)
         IN  IF dry_run THEN [result |-> "True", w |-> w1, mid |-> w1]
             ELSE IF action \notin {"move", "copy"} \/ ~is_file(src, w1)
             THEN [result |-> "False", w |-> w1, mid |-> w1]
             ELSE LET w2 == log_undo_operation(action, src, dst, w1, os)
                  IN  IF os.transfer THEN [result |-> "False", w |-> w2, mid |-> w1]
                      ELSE [result |-> "True",
                            w |-> IF action = "move" THEN Moved(src, dst, w2)
                                  ELSE Copied(src, dst, w2),
                            mid |-> w1]

\* mid is the world at the call of log_undo_operation (line 144): the transfer
\* is done, its line is not yet written; where that line is not reached, mid is w.
do_transfer(src, dst, action, dry_run, w, os) ==
    IF os.mkdir THEN [result |-> "False", w |-> w, mid |-> w]
    ELSE LET w1 == mkdir(PathParent(dst), w)
         IN  IF dry_run THEN [result |-> "True", w |-> w1, mid |-> w1]
             ELSE IF action \notin {"move", "copy"} \/ os.transfer \/ ~is_file(src, w1)
             THEN [result |-> "False", w |-> w1, mid |-> w1]
             ELSE LET w2 == IF action = "move" THEN Moved(src, dst, w1)
                            ELSE Copied(src, dst, w1)
                  IN  [result |-> "True",
                       w |-> log_undo_operation(action, src, dst, w2, os),
                       mid |-> w2]

(***************************************************************************)
(* The six classifiers.  Each returns "True", "False" or "None" (skip), or *)
(* "raise" when an exception leaves it, with the world after the call (w), *)
(* the world at the call of log_undo_operation (mid) and the destination   *)
(* it computed (dest_file, <<>> if it computed none).                      *)
(***************************************************************************)
Outcome(result, w) == [result |-> result, w |-> w, mid |-> w, dest_file |-> <<>>]

\* A faulty variant: a skip is reported as a failure.
resolve_and_transfer_failing_skips(file, dest_file, kwargs, w, os) ==
    LET r == resolve_conflict(dest_file, kwargs.conflict_policy, w, os)
        t == do_transfer(file, r.path, kwargs.action, kwargs.dry_run, r.w, os)
    IN  CASE r.kind = "None" -> [Outcome("False", r.w) EXCEPT !.dest_file = dest_file]
          [] r.kind = "raise" -> [Outcome("raise", r.w) EXCEPT !.dest_file = dest_file]
          [] OTHER -> [result |-> t.result, w |-> t.w, mid |-> t.mid,
                       dest_file |-> dest_file]

\* The tail every classifier shares: resolve the conflict, then transfer.
resolve_and_transfer(file, dest_file, kwargs, w, os) ==
    LET r == resolve_conflict(dest_file, kwargs.conflict_policy, w, os)
        t == do_transfer(file, r.path, kwargs.action, kwargs.dry_run, r.w, os)
    IN  CASE r.kind = "None" -> [Outcome("None", r.w) EXCEPT !.dest_file = dest_file]
          [] r.kind = "raise" -> [Outcome("raise", r.w) EXCEPT !.dest_file = dest_file]
          [] OTHER -> [result |-> t.result, w |-> t.w, mid |-> t.mid,
                       dest_file |-> dest_file]

\* try ... except Exception: return False
Caught(r) == IF r.result = "raise" THEN [r EXCEPT !.result = "False"] ELSE r

\* A faulty variant: skip_unknown is not looked at.
organize_by_type_never_skipping(file, dest_root, kwargs, ext_index, w, os) ==
    LET file_ext == lower(PathSuffix(file))
        cat == IF file_ext \in DOMAIN ext_index THEN ext_index[file_ext] ELSE "Others"
    IN  resolve_and_transfer(file, Join(Join(dest_root, <<cat>>), PathName(file)),
                             kwargs, w, os)

organize_by_type(file, dest_root, kwargs, ext_index, w, os) ==
    LET file_ext == lower(PathSuffix(file))
        known == file_ext \in DOMAIN ext_index
    IN  IF ~known /\ kwargs.skip_unknown
        THEN Outcome("None", w)
        ELSE LET cat == IF known THEN ext_index[file_ext] ELSE "Others"
                 dest_file == Join(Join(dest_root, <<cat>>), PathName(file))
             IN  resolve_and_transfer(file, dest_file, kwargs, w, os)

organize_by_name(file, dest_root, kwargs, w, os) ==
    resolve_and_transfer(file, Join(Join(dest_root, PathStem(file)), PathName(file)),
                         kwargs, w, os)

\* f"{n:02d}" and strftime('%B')
TwoDigits ==
    <<"01", "02", "03", "04", "05", "06", "07", "08", "09", "10", "11", "12", "13", "14",
      "15", "16", "17", "18", "19", "20", "21", "22", "23", "24", "25", "26", "27", "28",
      "29", "30", "31">>

MonthNames ==
    <<"January", "February", "March", "April", "May", "June", "July", "August",
      "September", "October", "November", "December">>

organize_by_date(file, dest_root, kwargs, w, os) ==
    IF os.stat \/ ~exists(file, w) THEN Outcome("False", w)
    ELSE LET date == Stat(w.fs[file])
             dest_dir == Join(Join(dest_root, <<date.year>>),
                              <<TwoDigits[date.month], "-", MonthNames[date.month]>>)
         IN  Caught(resolve_and_transfer(file, Join(dest_dir, PathName(file)), kwargs, w, os))

organize_by_day(file, dest_root, kwargs, w, os) ==
    IF os.stat \/ ~exists(file, w) THEN Outcome("False", w)
    ELSE LET date == Stat(w.fs[file])
             dest_dir == Join(Join(Join(dest_root, <<date.year>>),
                                   <<TwoDigits[date.month]>>), <<TwoDigits[date.day]>>)
         IN  Caught(resolve_and_transfer(file, Join(dest_dir, PathName(file)), kwargs, w, os))

MiB == 1024 * 1024

organize_by_size(file, dest_root, kwargs, w, os) ==
    IF os.stat \/ ~exists(file, w) THEN Outcome("False", w)
    ELSE LET st_size == Stat(w.fs[file]).st_size
             cat == IF st_size < MiB THEN <<"Small", " ", "(Under", " ", "1MB)">>
                    ELSE IF st_size < 100 * MiB THEN <<"Medium", " ", "(1-100MB)">>
                    ELSE <<"Large", " ", "(Over", " ", "100MB)">>
         IN  Caught(resolve_and_transfer(file, Join(Join(dest_root, cat), PathName(file)),
                                         kwargs, w, os))

organize_by_first_letter(file, dest_root, kwargs, w, os) ==
    LET stem == PathStem(file)
        first_letter == IF stem # <<>> THEN upper(stem[1]) ELSE "#"
        cat == IF isalpha(first_letter) THEN first_letter ELSE "#"
    IN  resolve_and_transfer(file, Join(Join(dest_root, <<cat>>), PathName(file)),
                             kwargs, w, os)

\* A faulty variant: a mode without a classifier of its own is let through.
ORGANIZERS_with_unknown ==
    {"type", "name", "date", "day", "size", "first_letter", "invalid_mode"}

ORGANIZERS == {"type", "name", "date", "day", "size", "first_letter"}

organizer_func(file, dest_root, kwargs, ext_index, w, os) ==
    CASE kwargs.mode = "type" -> organize_by_type(file, dest_root, kwargs, ext_index, w, os)
      [] kwargs.mode = "name" -> organize_by_name(file, dest_root, kwargs, w, os)
      [] kwargs.mode = "date" -> organize_by_date(file, dest_root, kwargs, w, os)
      [] kwargs.mode = "day" -> organize_by_day(file, dest_root, kwargs, w, os)
      [] kwargs.mode = "size" -> organize_by_size(file, dest_root, kwargs, w, os)
      [] OTHER -> organize_by_first_letter(file, dest_root, kwargs, w, os)

(***************************************************************************)
(* list_files                                                              *)
(***************************************************************************)
\* The regular files under src (all levels when recursive), none of them equal to
\* or below exclude_dir.  The order of the list is the operating system's.
\* A faulty variant: only the excluded directory and its children are left out.
list_files_one_level(src, recursive, exclude_dir, w) ==
    { p \in DOMAIN w.fs :
        /\ IsPrefix(src \o <<"/">>, p)
        /\ recursive \/ PathParent(p) = src
        /\ ~(p = exclude_dir \/ exclude_dir = PathParent(p)) }

list_files(src, recursive, exclude_dir, w) ==
    { p \in DOMAIN w.fs :
        /\ IsPrefix(src \o <<"/">>, p)
        /\ recursive \/ PathParent(p) = src
        /\ ~(p = exclude_dir \/ exclude_dir \in PathParents(p)) }

Orderings(S) ==
    { q \in [1..Cardinality(S) -> S] : \A i, j \in 1..Cardinality(S) : i # j => q[i] # q[j] }

(***************************************************************************)
(* clear_undo_log and the steps of perform_undo                            *)
(***************************************************************************)
\* UNDO_LOG_FILE.unlink(); an OSError is logged and swallowed.
\* Faulty variants: the log is emptied but left in place; the log is not touched.
clear_undo_log_truncating(w, os) ==
    IF w.undo_log.exists /\ ~os.unlink
    THEN [w EXCEPT !.undo_log = [exists |-> TRUE, lines |-> <<>>]] ELSE w

clear_undo_log_omitted(w, os) == w

clear_undo_log(w, os) ==
    IF w.undo_log.exists /\ ~os.unlink THEN [w EXCEPT !.undo_log = NoLog] ELSE w

\* A faulty variant: the lines in the order of the log.
reversed_forward(lines) == lines

\* reversed(lines)
reversed(lines) == [i \in 1..Len(lines) |-> lines[Len(lines) + 1 - i]]

\* A faulty variant: a line whose destination is gone is counted as restored.
undo_line_counting_missing(line, w, os) ==
    LET parts == split(strip(line), "|")
    IN  IF Len(parts) # 3
        THEN [counted |-> "failed", w |-> w, progress |-> FALSE]
        ELSE LET original_src == parts[2]
                 final_dst == parts[3]
             IN  IF exists(final_dst, w)
                 THEN IF os.mkdir
                      THEN [counted |-> "failed", w |-> w, progress |-> TRUE]
                      ELSE IF os.transfer
                      THEN [counted |-> "failed", w |-> mkdir(PathParent(original_src), w),
                            progress |-> TRUE]
                      ELSE [counted |-> "succeeded",
                            w |-> Moved(final_dst, original_src,
                                        mkdir(PathParent(original_src), w)),
                            progress |-> TRUE]
                 ELSE [counted |-> "succeeded", w |-> w, progress |-> TRUE]

\* The body of the loop for one line: which counter it increments, the world
\* after it, and whether the progress callback at the end of the body is reached.
undo_line(line, w, os) ==
    LET parts == split(strip(line), "|")
    IN  IF Len(parts) # 3
        THEN [counted |-> "failed", w |-> w, progress |-> FALSE]
        ELSE LET original_src == parts[2]
                 final_dst == parts[3]
             IN  IF exists(final_dst, w)
                 THEN IF os.mkdir
                      THEN [counted |-> "failed", w |-> w, progress |-> TRUE]
                      ELSE IF os.transfer
                      THEN [counted |-> "failed", w |-> mkdir(PathParent(original_src), w),
                            progress |-> TRUE]
                      ELSE [counted |-> "succeeded",
                            w |-> Moved(final_dst, original_src,
                                        mkdir(PathParent(original_src), w)),
                            progress |-> TRUE]
                 ELSE [counted |-> "failed", w |-> w, progress |-> TRUE]

(***************************************************************************)
(* State                                                                   *)
(***************************************************************************)
VARIABLES
    fs,             \* regular files: path -> content
    dirs,           \* directories
    undo_log,       \* UNDO_LOG_FILE: [exists, lines]
    kwargs,         \* the run parameters
    cancel_event,   \* threading.Event: is it set
    pc,             \* "idle", "poll", "organize" (process_directory), "undo" (perform_undo)
    files,          \* process_directory: the listed files
    idx,            \* process_directory: index of the loop
    stats,          \* process_directory: total, processed, succeeded, failed, skipped
    result,         \* what the current call returned (op = "none" until it returns)
    lines,          \* perform_undo: the lines read
    uidx,           \* perform_undo: index of the loop
    ustats,         \* perform_undo: total, succeeded, failed
    progress,       \* perform_undo: the calls of on_progress, in order
    ops,            \* calls made so far that found work to do
    faults,         \* operating-system errors and user interference so far
    last,           \* the latest call ("run", "undo") or interference ("tamper")
    before,         \* what came right before the latest perform_undo call
    undo_fault,     \* the latest perform_undo: "read" / "unlink" if that call on the log failed
    w0,             \* the world when the latest call began
    fresh,          \* the latest run began with no undo log
    moved,          \* the latest run: the files counted as succeeded, with their content
    lost,           \* the latest run: appends to the undo log that failed
    cancel_at,      \* files whose processing had begun when the event was set (-1: not set)
    outcomes,       \* perform_undo: for each line handled, what was found and counted
    categories_file,    \* CATEGORIES_FILE: the persisted category document
    categories,     \* the category map a caller holds
    load_result,    \* what the latest load_categories call did
    index_result,   \* what the latest build_ext_index call returned
    workers,        \* GUI: the worker threads started so far, in the order of creation
    organizer_worker,   \* GUI: self.organizer_worker (index into workers, 0 for None)
    undo_worker,    \* GUI: self.undo_worker (index into workers, 0 for None)
    signals,        \* GUI: finished signals emitted by workers and not yet handled
    enabled,        \* GUI: isEnabled() of run_action, cancel_action, undo_action, menu_bar
    summary         \* GUI: the statistics of the latest summary box

\* The state of the category store.
store_vars == <<categories_file, categories, load_result, index_result>>

\* The state of the main window and its worker threads.
gui_vars == <<workers, organizer_worker, undo_worker, signals, enabled, summary>>

vars == <<fs, dirs, undo_log, kwargs, cancel_event, pc, files, idx, stats, result, lines,
          uidx, ustats, progress, ops, faults, last, before, undo_fault, w0, fresh, moved,
          lost, cancel_at, outcomes, store_vars, gui_vars>>

World == [fs |-> fs, dirs |-> dirs, undo_log |-> undo_log]

SetWorld(w) == fs' = w.fs /\ dirs' = w.dirs /\ undo_log' = w.undo_log

ZeroStats == [total |-> 0, processed |-> 0, succeeded |-> 0, failed |-> 0, skipped |-> 0]
ZeroUndo == [total |-> 0, succeeded |-> 0, failed |-> 0]

\* The returned dictionaries, tagged with the call that returned them.
RunResult(st, error) ==
    [op |-> "run", total |-> st.total, processed |-> st.processed,
     succeeded |-> st.succeeded, failed |-> st.failed, skipped |-> st.skipped,
     error |-> error]
UndoResult(st) ==
    [op |-> "undo", total |-> st.total, processed |-> 0, succeeded |-> st.succeeded,
     failed |-> st.failed, skipped |-> 0, error |-> ""]
NoResult == [RunResult(ZeroStats, "") EXCEPT !.op = "none"]

\* At most one system call fails in one step.  OneFault: where every path the
\* engine looks at can be looked up; AnyFault: a lookup may fail as well.
AnyFault == {os \in OsOutcomes : Errors(os) <= 1}
OneFault == {os \in AnyFault : ~os.lookup}

Modes == ORGANIZERS
Actions == {"move", "copy"}
ConflictPolicies == {"skip", "overwrite", "rename"}

\* skip_unknown is read by organize_by_type alone.
Configurations ==
    { k \in [source : {source}, dest : {dest}, mode : Modes, action : Actions,
             conflict_policy : ConflictPolicies, recursive : BOOLEAN,
             skip_unknown : BOOLEAN, dry_run : {FALSE}] :
        k.skip_unknown => k.mode = "type" }

\* The engine's variables as one tuple.
engine_vars ==
    <<fs, dirs, undo_log, kwargs, cancel_event, pc, files, idx, stats, result, lines,
      uidx, ustats, progress, ops, faults, last, before, undo_fault, w0, fresh, moved,
      lost, cancel_at, outcomes>>

NoCall == [kind |-> "none"]

\* The category store where no behaviour uses it: process_directory is given
\* categories = DEFAULT_CATEGORIES.
StoreUnused ==
    /\ categories_file = Document("absent", <<>>)
    /\ categories = DEFAULT_CATEGORIES
    /\ load_result = NoCall
    /\ index_result = NoCall

\* _create_actions: every action is enabled as it is created, but cancel_action.
InitiallyEnabled ==
    [run_action |-> TRUE, cancel_action |-> FALSE, undo_action |-> TRUE, menu_bar |-> TRUE]

NoSummary == [kind |-> "none"]

\* FileOrganizerGUI.__init__: no worker; also the state where no window exists.
GuiUnused ==
    /\ workers = <<>>
    /\ organizer_worker = 0
    /\ undo_worker = 0
    /\ signals = <<>>
    /\ enabled = InitiallyEnabled
    /\ summary = NoSummary

\* Without a file below the top level, rglob and glob list the same files.
Init ==
    /\ StoreUnused
    /\ GuiUnused
    /\ \E S \in SUBSET Universe :
          /\ Cardinality(S) \in 1..MaxFiles
          /\ fs = [p \in S |-> ContentOf(p)]
    /\ dirs = {source, subfolder}
    /\ undo_log = NoLog
    /\ kwargs \in Configurations
    /\ kwargs.recursive => \E p \in DOMAIN fs : PathParent(p) # source
    /\ cancel_event = FALSE
    /\ pc = "idle"
    /\ files = <<>>
    /\ idx = 0
    /\ stats = ZeroStats
    /\ result = NoResult
    /\ lines = <<>>
    /\ uidx = 0
    /\ ustats = ZeroUndo
    /\ progress = <<>>
    /\ ops = 0
    /\ faults = 0
    /\ last = "none"
    /\ before = "none"
    /\ undo_fault = "none"
    /\ w0 = World
    /\ fresh = TRUE
    /\ moved = <<>>
    /\ lost = 0
    /\ cancel_at = -1
    /\ outcomes = <<>>

(***************************************************************************)
(* process_directory                                                       *)
(***************************************************************************)
\* The deny list of validate_paths on Linux.
system_dirs == {<<"/", "usr">>, <<"/", "bin">>, <<"/", "sbin">>, <<"/", "etc">>}

\* A faulty variant: a destination below a system directory is let through.
validate_paths_top_level_only(src, dst, w) ==
    CASE \E sys_dir \in system_dirs : exists(sys_dir, w) /\ dst = sys_dir ->
            "Cannot organize into system directory"
      [] src = dst -> "Source and destination cannot be the same."
      [] ~exists(src, w) -> "Source directory does not exist"
      [] ~is_dir(src, w) -> "Source is not a directory"
      [] OTHER -> ""

\* The error message of validate_paths, "" when the paths are valid.
validate_paths(src, dst, w) ==
    CASE \E sys_dir \in system_dirs :
            exists(sys_dir, w) /\ (dst = sys_dir \/ sys_dir \in PathParents(dst)) ->
            "Cannot organize into system directory"
      [] src = dst -> "Source and destination cannot be the same."
      [] ~exists(src, w) -> "Source directory does not exist"
      [] ~is_dir(src, w) -> "Source is not a directory"
      [] OTHER -> ""

\* kwargs['cancel_event'].is_set(), polled before each file.
\* A faulty variant: the event is never looked at.
cancel_ignored(event) == FALSE

cancel_requested(event) == event

\* categories = DEFAULT_CATEGORIES; the index is built for mode "type" only.
DefaultIndex == build_ext_index(DEFAULT_CATEGORIES)
ext_index_for(mode) == IF mode = "type" THEN DefaultIndex ELSE <<>>

\* A faulty variant: a skipped file is not counted as processed.
Counted_leaving_skips_out(st, outcome) ==
    CASE outcome = "None" ->
            [st EXCEPT !.skipped = @ + 1]
      [] outcome = "True" ->
            [st EXCEPT !.processed = @ + 1, !.succeeded = @ + 1]
      [] OTHER ->
            [st EXCEPT !.processed = @ + 1, !.failed = @ + 1]

Counted(st, outcome) ==
    CASE outcome = "None" ->
            [st EXCEPT !.processed = @ + 1, !.skipped = @ + 1]
      [] outcome = "True" ->
            [st EXCEPT !.processed = @ + 1, !.succeeded = @ + 1]
      [] OTHER ->
            [st EXCEPT !.processed = @ + 1, !.failed = @ + 1]

\* The locals of perform_undo, as they are before the call.
UndoLocalsReset ==
    /\ lines' = <<>>
    /\ uidx' = 0
    /\ ustats' = ZeroUndo
    /\ progress' = <<>>
    /\ outcomes' = <<>>
    /\ undo_fault' = "none"
    /\ before' = "none"

\* The locals of process_directory, as they are before the call.
RunLocalsReset ==
    /\ files' = <<>>
    /\ idx' = 0
    /\ stats' = ZeroStats
    /\ lost' = 0
    /\ cancel_at' = -1
    /\ cancel_event' = FALSE

\* The call up to the loop: validation, the mode, the listing, the counters.
process_directory_begin ==
    /\ UNCHANGED <<store_vars, gui_vars>>
    /\ pc = "idle"
    /\ ops < MaxOps
    /\ \E dry_run \in BOOLEAN :
          kwargs' = [kwargs EXCEPT !.dry_run = dry_run]
    /\ cancel_event' = FALSE
    /\ cancel_at' = -1
    /\ ops' = ops + 1
    /\ last' = "run"
    /\ w0' = World
    /\ fresh' = ~undo_log.exists
    /\ moved' = <<>>
    /\ lost' = 0
    /\ UndoLocalsReset
    /\ LET error_msg == validate_paths(kwargs.source, kwargs.dest, World)
           listed == list_files(kwargs.source, kwargs.recursive, kwargs.dest, World)
       IN  IF error_msg # "" \/ kwargs.mode \notin ORGANIZERS
           THEN /\ result' = RunResult(ZeroStats,
                                       IF error_msg # "" THEN error_msg
                                       ELSE "Unknown organization mode")
                /\ files' = <<>>
                /\ stats' = ZeroStats
                /\ idx' = 0
                /\ UNCHANGED pc
           ELSE IF listed = {}
           THEN /\ result' = RunResult(ZeroStats, "")
                /\ files' = <<>>
                /\ stats' = ZeroStats
                /\ idx' = 0
                /\ UNCHANGED pc
           ELSE /\ \E order \in Orderings(listed) : files' = order
                /\ stats' = [ZeroStats EXCEPT !.total = Cardinality(listed)]
                /\ idx' = 1
                /\ pc' = "poll"
                /\ result' = NoResult
    /\ UNCHANGED <<fs, dirs, undo_log, faults>>

\* The head of the loop body: the cancellation check.
process_directory_poll ==
    /\ UNCHANGED <<store_vars, gui_vars>>
    /\ pc = "poll"
    /\ IF cancel_requested(cancel_event)
       THEN /\ result' = RunResult(stats, "")
            /\ pc' = "idle"
       ELSE /\ pc' = "organize"
            /\ UNCHANGED result
    /\ UNCHANGED <<fs, dirs, undo_log, kwargs, cancel_event, files, idx, stats, lines, uidx,
                   ustats, progress, ops, faults, last, before, undo_fault, w0, fresh,
                   moved, lost, cancel_at, outcomes>>

\* The rest of the loop body: the classifier on files[idx], the counters, and the
\* return after the last file.
Organize(Faults) ==
    /\ UNCHANGED <<store_vars, gui_vars>>
    /\ pc = "organize"
    /\ \E os \in Faults :
          LET item == files[idx]
              r == organizer_func(item, kwargs.dest, kwargs,
                                  ext_index_for(kwargs.mode), World, os)
              r0 == organizer_func(item, kwargs.dest, kwargs,
                                   ext_index_for(kwargs.mode), World, NoError)
          IN  /\ os = NoError \/ (faults < MaxFaults /\ r # r0)
              /\ faults' = faults + Errors(os)
              /\ lost' = IF os.log THEN lost + 1 ELSE lost
              /\ moved' = IF r.result = "True" THEN Put(moved, item, fs[item]) ELSE moved
              /\ SetWorld(r.w)
              /\ IF r.result = "raise"
                 THEN /\ result' = [RunResult(stats, "") EXCEPT !.op = "raise"]
                      /\ pc' = "idle"
                      /\ UNCHANGED <<stats, idx>>
                 ELSE /\ stats' = Counted(stats, r.result)
                      /\ IF idx = stats.total
                         THEN /\ result' = RunResult(stats', "")
                              /\ pc' = "idle"
                              /\ UNCHANGED idx
                         ELSE /\ idx' = idx + 1
                              /\ pc' = "poll"
                              /\ UNCHANGED result
    /\ UNCHANGED <<kwargs, cancel_event, files, lines, uidx, ustats, progress, ops, last,
                   before, undo_fault, w0, fresh, cancel_at, outcomes>>

process_directory_organize == Organize(OneFault)

\* Another thread sets the cancel event while the run is in progress (before the
\* first check this is an event that was set before the run).
SetCancel ==
    /\ UNCHANGED <<store_vars, gui_vars>>
    /\ pc \in {"poll", "organize"}
    /\ ~cancel_event
    /\ faults < MaxFaults
    /\ faults' = faults + 1
    /\ cancel_event' = TRUE
    /\ cancel_at' = IF pc = "organize" THEN idx ELSE idx - 1
    /\ UNCHANGED <<fs, dirs, undo_log, kwargs, pc, files, idx, stats, result, lines, uidx,
                   ustats, progress, ops, last, before, undo_fault, w0, fresh, moved, lost,
                   outcomes>>

(***************************************************************************)
(* perform_undo                                                            *)
(***************************************************************************)
\* What the call that begins now comes right after.
Before ==
    CASE last # "undo" -> last
      [] undo_fault = "read" -> "undo_read_error"
      [] undo_fault = "unlink" -> "undo_unlink_error"
      [] OTHER -> "undo"

\* The call up to the loop: the existence check and the read of the log.  A call
\* that finds no log is not counted in ops.
perform_undo_begin ==
    /\ UNCHANGED <<store_vars, gui_vars>>
    /\ pc = "idle"
    /\ undo_log.exists => ops < MaxOps
    /\ ops' = IF undo_log.exists THEN ops + 1 ELSE ops
    /\ last' = "undo"
    /\ before' = Before
    /\ w0' = World
    /\ outcomes' = <<>>
    /\ RunLocalsReset
    /\ IF ~undo_log.exists
       THEN /\ progress' = << <<0, 0>> >>
            /\ result' = UndoResult(ZeroUndo)
            /\ undo_fault' = "none"
            /\ lines' = <<>>
            /\ ustats' = ZeroUndo
            /\ uidx' = 0
            /\ UNCHANGED <<pc, faults>>
       ELSE \E os \in {o \in OneFault : Errors(o) = 0 \/ o.read} :
               /\ progress' = <<>>
               /\ IF os.read
                  THEN /\ faults < MaxFaults
                       /\ faults' = faults + 1
                       /\ undo_fault' = "read"
                       /\ result' = UndoResult(ZeroUndo)
                       /\ lines' = <<>>
                       /\ ustats' = ZeroUndo
                       /\ uidx' = 0
                       /\ UNCHANGED pc
                  ELSE /\ undo_fault' = "none"
                       /\ lines' = undo_log.lines
                       /\ ustats' = [ZeroUndo EXCEPT !.total = Len(undo_log.lines)]
                       /\ uidx' = 1
                       /\ pc' = "undo"
                       /\ result' = NoResult
                       /\ UNCHANGED faults
    /\ UNCHANGED <<fs, dirs, undo_log, kwargs, fresh, moved>>

\* One iteration of the loop over reversed(lines).
perform_undo_line ==
    /\ UNCHANGED <<store_vars, gui_vars>>
    /\ pc = "undo"
    /\ uidx <= ustats.total
    /\ \E os \in OneFault :
          LET line == reversed(lines)[uidx]
              parts == split(strip(line), "|")
              r == undo_line(line, World, os)
              r0 == undo_line(line, World, NoError)
          IN  /\ os = NoError \/ (faults < MaxFaults /\ r # r0)
              /\ faults' = faults + Errors(os)
              /\ SetWorld(r.w)
              /\ ustats' = IF r.counted = "succeeded"
                           THEN [ustats EXCEPT !.succeeded = @ + 1]
                           ELSE [ustats EXCEPT !.failed = @ + 1]
              /\ progress' = IF r.progress THEN Append(progress, <<uidx, ustats.total>>)
                             ELSE progress
              /\ outcomes' = Append(outcomes,
                    [line |-> line,
                     fields |-> Len(parts),
                     found |-> Len(parts) = 3 /\ exists(parts[3], World),
                     error |-> os # NoError,
                     restored |-> /\ Len(parts) = 3
                                  /\ is_file(parts[3], World)
                                  /\ ~is_file(parts[3], r.w)
                                  /\ is_file(parts[2], r.w)
                                  /\ r.w.fs[parts[2]] = fs[parts[3]]
                                  /\ PathParent(parts[2]) \in r.w.dirs,
                     counted |-> r.counted])
              /\ uidx' = uidx + 1
    /\ UNCHANGED <<kwargs, cancel_event, pc, files, idx, stats, result, lines, ops, last,
                   before, undo_fault, w0, fresh, moved, lost, cancel_at>>

\* After the loop: clear_undo_log() and the return of the statistics.
perform_undo_end ==
    /\ UNCHANGED <<store_vars, gui_vars>>
    /\ pc = "undo"
    /\ uidx > ustats.total
    /\ \E os \in {o \in OneFault : Errors(o) = 0 \/ o.unlink} :
          /\ os.unlink => faults < MaxFaults
          /\ faults' = faults + Errors(os)
          /\ undo_fault' = IF os.unlink THEN "unlink" ELSE "none"
          /\ SetWorld(clear_undo_log(World, os))
    /\ result' = UndoResult(ustats)
    /\ pc' = "idle"
    /\ UNCHANGED <<kwargs, cancel_event, files, idx, stats, lines, uidx, ustats, progress,
                   ops, last, before, w0, fresh, moved, lost, cancel_at, outcomes>>

(***************************************************************************)
(* The user deletes a file under the destination between two calls.        *)
(***************************************************************************)
UserDeletes ==
    /\ UNCHANGED <<store_vars, gui_vars>>
    /\ pc = "idle"
    /\ ops < MaxOps
    /\ faults < MaxFaults
    /\ \E p \in DOMAIN fs :
          /\ IsPrefix(kwargs.dest \o <<"/">>, p)
          /\ fs' = Remove(fs, {p})
    /\ faults' = faults + 1
    /\ last' = "tamper"
    /\ UNCHANGED <<dirs, undo_log, kwargs, cancel_event, pc, files, idx, stats, result,
                   lines, uidx, ustats, progress, ops, before, undo_fault, w0, fresh, moved,
                   lost, cancel_at, outcomes>>

(***************************************************************************)
(* The user writes a file in the source tree between two calls: edits a    *)
(* file the latest run has copied, or creates a new file where the latest  *)
(* run has moved one away.                                                 *)
(***************************************************************************)
UserWrites ==
    /\ UNCHANGED <<store_vars, gui_vars>>
    /\ pc = "idle"
    /\ last = "run"
    /\ ops < MaxOps
    /\ faults < MaxFaults
    /\ \E p \in DOMAIN moved : fs' = Put(fs, p, "edited")
    /\ faults' = faults + 1
    /\ last' = "tamper"
    /\ UNCHANGED <<dirs, undo_log, kwargs, cancel_event, pc, files, idx, stats, result,
                   lines, uidx, ustats, progress, ops, before, undo_fault, w0, fresh, moved,
                   lost, cancel_at, outcomes>>

Next ==
    \/ process_directory_begin
    \/ process_directory_poll
    \/ process_directory_organize
    \/ SetCancel
    \/ perform_undo_begin
    \/ perform_undo_line
    \/ perform_undo_end
    \/ UserDeletes
    \/ UserWrites

Spec == Init /\ [][Next]_vars

(***************************************************************************)
(* process_directory called with any arguments: values of mode, action and *)
(* conflict_policy the engine does not know, a source that is missing or   *)
(* is a file, a destination that is the source, is inside the source or is *)
(* a system directory; and in an environment where a lookup may fail.      *)
(* One argument is unusual at a time, and an unusual path comes with one   *)
(* mode and one policy.                                                    *)
(***************************************************************************)
missing == <<"/", "n">>
inside == Join(source, <<"d">>)

Sources == {source, missing, Join(source, <<"x", ".txt">>)}
Destinations == {dest, inside, source, <<"/", "usr">>, Join(<<"/", "usr">>, <<"d">>)}

Unusual(k) ==
    (IF k.source # source THEN 1 ELSE 0) + (IF k.dest # dest THEN 1 ELSE 0)
    + (IF k.mode \notin Modes THEN 1 ELSE 0) + (IF k.action \notin Actions THEN 1 ELSE 0)
    + (IF k.conflict_policy \notin ConflictPolicies THEN 1 ELSE 0)

AnyConfigurations ==
    { k \in [source : Sources, dest : Destinations,
             mode : Modes \cup {"invalid_mode"},
             action : Actions \cup {"link"},
             conflict_policy : ConflictPolicies \cup {"invalid_policy"},
             recursive : BOOLEAN, skip_unknown : {FALSE}, dry_run : {FALSE}] :
        /\ Unusual(k) <= 1
        /\ (k.source # source \/ k.dest # dest)
             => k.mode = "name" /\ k.conflict_policy = "rename" }

InitAny ==
    /\ StoreUnused
    /\ GuiUnused
    /\ \E S \in SUBSET Universe :
          /\ Cardinality(S) \in 1..MaxFiles
          /\ fs = [p \in S |-> ContentOf(p)]
    /\ dirs = {source, subfolder} \cup system_dirs
    /\ undo_log = NoLog
    /\ kwargs \in AnyConfigurations
    /\ kwargs.recursive =>
          \/ \E p \in DOMAIN fs : PathParent(p) # source
          \/ kwargs.dest = inside
    /\ cancel_event = FALSE
    /\ pc = "idle"
    /\ files = <<>>
    /\ idx = 0
    /\ stats = ZeroStats
    /\ result = NoResult
    /\ lines = <<>>
    /\ uidx = 0
    /\ ustats = ZeroUndo
    /\ progress = <<>>
    /\ ops = MaxOps - MaxRuns
    /\ faults = 0
    /\ last = "none"
    /\ before = "none"
    /\ undo_fault = "none"
    /\ w0 = World
    /\ fresh = TRUE
    /\ moved = <<>>
    /\ lost = 0
    /\ cancel_at = -1
    /\ outcomes = <<>>

process_directory_organize_any == Organize(AnyFault)

NextAny ==
    \/ process_directory_begin
    \/ process_directory_poll
    \/ process_directory_organize_any

SpecAny == InitAny /\ [][NextAny]_vars

(***************************************************************************)
(* The category store: load_categories and build_ext_index, called on the  *)
(* category maps and the persisted documents of a small vocabulary.        *)
(***************************************************************************)
CategoryNames == {"Images", "Photos", "Others"}
Extensions == {".jpg", ".JPG", ""}

\* A dict: the categories in insertion order, no name twice.
CategoryMaps ==
    { m \in UNION {[1..n -> [cat : CategoryNames, exts : SUBSET Extensions]] :
                     n \in 0..MaxCats} :
        \A i, j \in 1..Len(m) : i # j => m[i].cat # m[j].cat }

DamagedDocuments ==
    {Document(kind, <<>>) : kind \in {"absent", "unreadable", "not_text", "not_json",
                                      "wrong_shape"}}

\* No call of the engine's functions is in progress in the calling thread.
EngineIdle ==
    /\ cancel_event = FALSE
    /\ pc = "idle"
    /\ files = <<>>
    /\ idx = 0
    /\ stats = ZeroStats
    /\ result = NoResult
    /\ lines = <<>>
    /\ uidx = 0
    /\ ustats = ZeroUndo
    /\ progress = <<>>
    /\ ops = 0
    /\ faults = 0
    /\ last = "none"
    /\ before = "none"
    /\ undo_fault = "none"
    /\ w0 = World
    /\ fresh = TRUE
    /\ moved = <<>>
    /\ lost = 0
    /\ cancel_at = -1
    /\ outcomes = <<>>

\* The engine is not used: there are no files and no run parameters that matter.
EngineUnused ==
    /\ fs = <<>>
    /\ dirs = {}
    /\ undo_log = NoLog
    /\ kwargs = [source |-> source, dest |-> dest, mode |-> "type", action |-> "move",
                 conflict_policy |-> "rename", recursive |-> FALSE,
                 skip_unknown |-> FALSE, dry_run |-> FALSE]
    /\ EngineIdle

\* A caller holds a category map; the document holds the same map or is damaged.
InitStore ==
    /\ EngineUnused
    /\ GuiUnused
    /\ categories \in CategoryMaps
    /\ categories_file \in DamagedDocuments \cup {Document("object", categories)}
    /\ load_result = NoCall
    /\ index_result = NoCall

\* categories = load_categories(); an exception leaves the caller's map as it was.
LoadCategories ==
    /\ \E os \in {"ok", "open_fails", "write_fails"} :
          LET r == load_categories(categories_file, os)
          IN  /\ load_result' = [kind |-> r.kind, value |-> r.value,
                                 file_before |-> categories_file]
              /\ categories_file' = r.file
              /\ categories' = IF r.kind = "return" THEN r.value ELSE categories
    /\ UNCHANGED <<index_result, engine_vars, gui_vars>>

\* ext_index = build_ext_index(categories)
BuildExtIndex ==
    /\ LET r == build_ext_index_call(categories)
       IN  index_result' = [kind |-> "return", categories |-> categories,
                            idx |-> r.idx, duplicates |-> r.duplicates]
    /\ UNCHANGED <<categories_file, categories, load_result, engine_vars, gui_vars>>

NextStore == LoadCategories \/ BuildExtIndex

SpecStore == InitStore /\ [][NextStore]_vars

(***************************************************************************)
(* The main window (file_organizer_gui.py): the slots of FileOrganizerGUI  *)
(* run in the GUI thread, one at a time; OrganizerWorker.run and           *)
(* UndoWorker.run are threads of their own, which act on the files and the *)
(* undo log one step of the engine's loops at a time and end by emitting   *)
(* `finished`, a signal that is queued to the GUI thread.                  *)
(***************************************************************************)
\* The engine's variables but the files, the directories and the undo log.
engine_locals ==
    <<kwargs, cancel_event, pc, files, idx, stats, result, lines, uidx, ustats, progress,
      ops, faults, last, before, undo_fault, w0, fresh, moved, lost, cancel_at, outcomes>>

\* OrganizerWorker(params), with params['cancel_event'] = threading.Event().
NewOrganizerWorker(dry_run) ==
    [kind |-> "organizer", state |-> "scan", dry_run |-> dry_run, cancel_event |-> FALSE,
     files |-> <<>>, idx |-> 0, stats |-> ZeroStats,
     lines |-> <<>>, uidx |-> 0, ustats |-> ZeroUndo]

\* UndoWorker()
NewUndoWorker ==
    [kind |-> "undo", state |-> "begin", dry_run |-> FALSE, cancel_event |-> FALSE,
     files |-> <<>>, idx |-> 0, stats |-> ZeroStats,
     lines |-> <<>>, uidx |-> 0, ustats |-> ZeroUndo]

\* QThread.isRunning(): run() has not returned (it returns right after its emit).
isRunning(worker) == worker.state # "done"

\* self.finished.emit(...), as it waits in the event queue of the GUI thread.
FinishedSignal(i, kind, st, cancelled) ==
    [from |-> i, kind |-> kind, stats |-> st, cancelled |-> cancelled]

\* set_controls_enabled(value): run_action and the menu bar (and the group boxes
\* of the form) get `value`; cancel_action is enabled if value is False and
\* self.organizer_worker is a running thread; undo_action is not touched.
set_controls_enabled(value, en, ow, ws) ==
    [en EXCEPT !.run_action = value,
               !.cancel_action = ~value /\ ow # 0 /\ isRunning(ws[ow]),
               !.menu_bar = value]

\* The settings of the form: the dry-run box is read when a run is started.
GuiSettings ==
    [source : {source}, dest : {dest}, mode : {"name"}, action : {"move", "copy"},
     conflict_policy : {"rename"}, recursive : {FALSE}, skip_unknown : {FALSE},
     dry_run : {FALSE}]

InitGui ==
    /\ \E S \in SUBSET Universe :
          /\ Cardinality(S) \in 1..MaxFiles
          /\ \A p \in S : PathParent(p) = source
          /\ fs = [p \in S |-> ContentOf(p)]
    /\ dirs = {source, subfolder}
    /\ undo_log = NoLog
    /\ kwargs \in GuiSettings
    /\ EngineIdle
    /\ StoreUnused
    /\ GuiUnused

\* The slot of run_action (tool bar, Ctrl+R): source and destination are valid;
\* the undo log is cleared, the controls are disabled, the parameters are read
\* from the form, and a new OrganizerWorker is stored and started.
run_organizer ==
    /\ enabled.run_action
    /\ Len(workers) < MaxWorkers
    /\ is_dir(kwargs.source, World)
    /\ validate_paths(kwargs.source, kwargs.dest, World) = ""
    /\ SetWorld(clear_undo_log(World, NoError))
    /\ enabled' = set_controls_enabled(FALSE, enabled, organizer_worker, workers)
    /\ LET loaded == load_categories(categories_file, "ok")
       IN  /\ categories_file' = loaded.file
           /\ categories' = loaded.value
    /\ \E dry_run \in BOOLEAN : workers' = Append(workers, NewOrganizerWorker(dry_run))
    /\ organizer_worker' = Len(workers) + 1
    /\ UNCHANGED <<undo_worker, signals, summary, load_result, index_result, engine_locals>>

\* The slot of cancel_action (tool bar): after a confirmation, the cancel event
\* of self.organizer_worker is set.
cancel_organizer ==
    /\ enabled.cancel_action
    /\ IF organizer_worker # 0 /\ isRunning(workers[organizer_worker])
       THEN \E reply \in {"Yes", "No"} :
               workers' = IF reply = "Yes"
                          THEN [workers EXCEPT ![organizer_worker].cancel_event = TRUE]
                          ELSE workers
       ELSE UNCHANGED workers
    /\ UNCHANGED <<organizer_worker, undo_worker, signals, enabled, summary, store_vars,
                   engine_vars>>

\* The slot of undo_action (tool bar; Edit menu while the menu bar is enabled):
\* with an undo log and after a confirmation, the controls are disabled and a new
\* UndoWorker is stored and started.
undo_operation ==
    /\ enabled.undo_action
    /\ Len(workers) < MaxWorkers
    /\ IF ~undo_log.exists
       THEN UNCHANGED <<workers, undo_worker, enabled>>
       ELSE \E reply \in {"Yes", "No"} :
               IF reply = "Yes"
               THEN /\ enabled' = set_controls_enabled(FALSE, enabled, organizer_worker,
                                                       workers)
                    /\ workers' = Append(workers, NewUndoWorker)
                    /\ undo_worker' = Len(workers) + 1
               ELSE UNCHANGED <<workers, undo_worker, enabled>>
    /\ UNCHANGED <<organizer_worker, signals, summary, store_vars, engine_vars>>

\* The slot of OrganizerWorker.finished: the summary is shown, then
\* self.organizer_worker = None and the controls are enabled.
on_worker_finished ==
    /\ signals # <<>>
    /\ Head(signals).kind = "organizer"
    /\ summary' = Head(signals)
    /\ signals' = Tail(signals)
    /\ organizer_worker' = 0
    /\ enabled' = set_controls_enabled(TRUE, enabled, 0, workers)
    /\ UNCHANGED <<workers, undo_worker, store_vars, engine_vars>>

\* The slot of UndoWorker.finished.
on_undo_finished ==
    /\ signals # <<>>
    /\ Head(signals).kind = "undo"
    /\ summary' = Head(signals)
    /\ signals' = Tail(signals)
    /\ undo_worker' = 0
    /\ enabled' = set_controls_enabled(TRUE, enabled, organizer_worker, workers)
    /\ UNCHANGED <<workers, organizer_worker, store_vars, engine_vars>>

\* The run parameters of a worker.
ParamsOf(worker) == [kwargs EXCEPT !.dry_run = worker.dry_run]

\* A worker thread ends: its last state and the signal it emits.
Finish(i, worker, st, cancelled) ==
    /\ workers' = [workers EXCEPT ![i] = [worker EXCEPT !.state = "done"]]
    /\ signals' = Append(signals, FinishedSignal(i, worker.kind, st, cancelled))

\* OrganizerWorker.run up to the loop of process_directory: list_files, then the
\* validation and the counters of process_directory(**params).
OrganizerWorker_scan ==
    /\ \E i \in 1..Len(workers) :
          LET worker == workers[i]
              listed == list_files(kwargs.source, kwargs.recursive, kwargs.dest, World)
              error_msg == validate_paths(kwargs.source, kwargs.dest, World)
          IN  /\ worker.kind = "organizer"
              /\ worker.state = "scan"
              /\ IF error_msg # "" \/ kwargs.mode \notin ORGANIZERS \/ listed = {}
                 THEN Finish(i, worker, ZeroStats, worker.cancel_event)
                 ELSE /\ \E order \in Orderings(listed) :
                            workers' =
                               [workers EXCEPT ![i] =
                                  [worker EXCEPT
                                     !.state = "poll",
                                     !.files = order,
                                     !.idx = 1,
                                     !.stats = [ZeroStats EXCEPT
                                                  !.total = Cardinality(listed)]]]
                      /\ UNCHANGED signals
    /\ UNCHANGED <<organizer_worker, undo_worker, enabled, summary, store_vars, engine_vars>>

\* The head of the loop body of process_directory in the worker: at a set event
\* the loop is left and the counters are emitted.
OrganizerWorker_poll ==
    /\ \E i \in 1..Len(workers) :
          LET worker == workers[i]
          IN  /\ worker.kind = "organizer"
              /\ worker.state = "poll"
              /\ IF cancel_requested(worker.cancel_event)
                 THEN Finish(i, worker, worker.stats, TRUE)
                 ELSE /\ workers' = [workers EXCEPT ![i].state = "organize"]
                      /\ UNCHANGED signals
    /\ UNCHANGED <<organizer_worker, undo_worker, enabled, summary, store_vars, engine_vars>>

\* The rest of the loop body: the classifier, the counters, and the worker's
\* on_progress_callback, which raises InterruptedError at a set event; run()
\* catches it and emits all zeros.
OrganizerWorker_file ==
    /\ \E i \in 1..Len(workers) :
          LET worker == workers[i]
              params == ParamsOf(worker)
              r == organizer_func(worker.files[worker.idx], kwargs.dest, params,
                                  ext_index_for(params.mode), World, NoError)
              counted == Counted(worker.stats, r.result)
              after == [worker EXCEPT !.stats = counted]
          IN  /\ worker.kind = "organizer"
              /\ worker.state = "organize"
              /\ SetWorld(r.w)
              /\ IF worker.cancel_event
                 THEN Finish(i, after, ZeroStats, TRUE)
                 ELSE IF worker.idx = worker.stats.total
                 THEN Finish(i, after, counted, worker.cancel_event)
                 ELSE /\ workers' = [workers EXCEPT
                                        ![i] = [after EXCEPT !.state = "poll",
                                                             !.idx = worker.idx + 1]]
                      /\ UNCHANGED signals
    /\ UNCHANGED <<organizer_worker, undo_worker, enabled, summary, store_vars,
                   engine_locals>>

\* UndoWorker.run: perform_undo up to its loop.
UndoWorker_begin ==
    /\ \E i \in 1..Len(workers) :
          LET worker == workers[i]
          IN  /\ worker.kind = "undo"
              /\ worker.state = "begin"
              /\ IF ~undo_log.exists
                 THEN Finish(i, worker, ZeroUndo, FALSE)
                 ELSE /\ workers' =
                            [workers EXCEPT ![i] =
                               [worker EXCEPT
                                  !.state = "undo",
                                  !.lines = undo_log.lines,
                                  !.uidx = 1,
                                  !.ustats = [ZeroUndo EXCEPT
                                                !.total = Len(undo_log.lines)]]]
                      /\ UNCHANGED signals
    /\ UNCHANGED <<organizer_worker, undo_worker, enabled, summary, store_vars, engine_vars>>

\* One iteration of the loop of perform_undo in the worker.
UndoWorker_line ==
    /\ \E i \in 1..Len(workers) :
          LET worker == workers[i]
              r == undo_line(reversed(worker.lines)[worker.uidx], World, NoError)
          IN  /\ worker.kind = "undo"
              /\ worker.state = "undo"
              /\ worker.uidx <= worker.ustats.total
              /\ SetWorld(r.w)
              /\ workers' =
                    [workers EXCEPT ![i] =
                       [worker EXCEPT
                          !.uidx = worker.uidx + 1,
                          !.ustats = IF r.counted = "succeeded"
                                     THEN [worker.ustats EXCEPT !.succeeded = @ + 1]
                                     ELSE [worker.ustats EXCEPT !.failed = @ + 1]]]
    /\ UNCHANGED <<organizer_worker, undo_worker, signals, enabled, summary, store_vars,
                   engine_locals>>

\* After the loop of perform_undo: clear_undo_log(), and the statistics are emitted.
UndoWorker_end ==
    /\ \E i \in 1..Len(workers) :
          LET worker == workers[i]
          IN  /\ worker.kind = "undo"
              /\ worker.state = "undo"
              /\ worker.uidx > worker.ustats.total
              /\ SetWorld(clear_undo_log(World, NoError))
              /\ Finish(i, worker, worker.ustats, FALSE)
    /\ UNCHANGED <<organizer_worker, undo_worker, enabled, summary, store_vars,
                   engine_locals>>

NextGui ==
    \/ run_organizer
    \/ cancel_organizer
    \/ undo_operation
    \/ on_worker_finished
    \/ on_undo_finished
    \/ OrganizerWorker_scan
    \/ OrganizerWorker_poll
    \/ OrganizerWorker_file
    \/ UndoWorker_begin
    \/ UndoWorker_line
    \/ UndoWorker_end

SpecGui == InitGui /\ [][NextGui]_vars

(***************************************************************************)
(* Properties                                                              *)
(***************************************************************************)
\* A name the undo log's line format can carry: no delimiter in it, no whitespace
\* at its end.
PlainName(p) ==
    /\ \A i \in 1..Len(p) : p[i] # "|"
    /\ p[Len(p)] \notin Whitespace

\* A run has returned / an undo call has returned, and nothing happened since.
RunReturned == last = "run" /\ pc = "idle"
UndoReturned == last = "undo" /\ pc = "idle"

\* C1 (as claimed): after a run with action=move that began with no undo log,
\* followed at once by perform_undo, every file the run counted as succeeded is
\* back at its original path with its original content and the undo log is gone.
\* Stated for runs without any operating-system error or interference and for
\* files with plain names.
C1_RoundTrip ==
    (/\ UndoReturned
     /\ before = "run"
     /\ fresh
     /\ kwargs.action = "move"
     /\ faults = 0
     /\ \A p \in DOMAIN moved : PlainName(p))
    => /\ \A p \in DOMAIN moved : is_file(p, World) /\ fs[p] = moved[p]
       /\ ~undo_log.exists

\* C2 (as claimed): a run with dry_run=true changes no file and leaves the undo
\* log as it was, for every mode, action and conflict policy.
C2_DryRunChangesNothing ==
    (last = "run" /\ kwargs.dry_run) => fs = w0.fs /\ undo_log = w0.undo_log

\* C3 (as claimed): for a run that began with no undo log, the log has as many
\* lines as the run counted succeeded transfers if dry_run is false, none if true.
C3_LinesEqualSucceeded ==
    (RunReturned /\ fresh)
    => Len(undo_log.lines) = IF kwargs.dry_run THEN 0 ELSE result.succeeded

\* C3 (amended): at every point of a run that began with no undo log, the log
\* has one line for each transfer counted so far as succeeded whose append to the
\* log did not fail, if dry_run is false, and none if dry_run is true; skipped
\* and failed files add no line.
C3_LinesEqualLoggedTransfers ==
    (last = "run" /\ fresh)
    => Len(undo_log.lines) = IF kwargs.dry_run THEN 0 ELSE stats.succeeded - lost

\* C3 witness: a real run has returned with one file transferred and logged and
\* another one skipped or failed.
C3_Witness ==
    /\ RunReturned
    /\ fresh
    /\ ~kwargs.dry_run
    /\ result.succeeded = 1
    /\ result.skipped + result.failed = 1
    /\ Len(undo_log.lines) = 1

\* C4 (as claimed): process_directory clears the undo log when it starts, so that
\* the log holds the records of the latest run only.
C4_LogHoldsLatestRunOnly ==
    last = "run"
    => Len(undo_log.lines) = IF kwargs.dry_run THEN 0 ELSE stats.succeeded - lost

\* C5: perform_undo handles the lines in the reverse of the order of the log: the
\* k-th line handled is line n-k+1 of the n lines the log had.
C5_ReverseOrder ==
    last = "undo"
    => /\ Len(outcomes) <= Len(w0.undo_log.lines)
       /\ \A k \in 1..Len(outcomes) :
             outcomes[k].line = w0.undo_log.lines[Len(w0.undo_log.lines) - k + 1]

\* C5 witness: a pass over a log of two different lines has returned.
C5_Witness ==
    /\ UndoReturned
    /\ Len(outcomes) = 2
    /\ outcomes[1].line # outcomes[2].line

CountedAsSpecified(o) ==
    /\ o.fields # 3 => o.counted = "failed"
    /\ (o.fields = 3 /\ o.found /\ ~o.error) => o.counted = "succeeded" /\ o.restored
    /\ (o.fields = 3 /\ (~o.found \/ o.error)) => o.counted = "failed"

C7_LogGoneAfterUndo ==
    (UndoReturned /\ w0.undo_log.exists) => ~undo_log.exists

\* C7 (amended): when perform_undo is called while an undo log exists and the log
\* can be read, then after all lines, whatever their successes and failures, it
\* removes the log unless the removal itself fails; if the log cannot be read or
\* removed it is left as it was.
C7_LogGoneUnlessLogFault ==
    (UndoReturned /\ w0.undo_log.exists)
    => IF undo_fault = "none" THEN ~undo_log.exists ELSE undo_log = w0.undo_log

\* C7 witness: a pass in which a line failed has returned and the log is gone.
C7_Witness ==
    /\ UndoReturned
    /\ w0.undo_log.exists
    /\ result.failed >= 1
    /\ ~undo_log.exists

\* C8 (as claimed): a pass over n lines calls the progress callback n times, with
\* (1, n), (2, n), ..., (n, n), malformed lines included.
C8_ProgressForEveryLine ==
    (UndoReturned /\ w0.undo_log.exists /\ undo_fault # "read")
    => progress = [k \in 1..Len(w0.undo_log.lines) |-> <<k, Len(w0.undo_log.lines)>>]

\* C9 (as claimed): with no undo log perform_undo returns all zeros and changes no
\* file, and a perform_undo right after a completed undo pass is such a no-op.
C9_SecondUndoIsNoOp ==
    (UndoReturned /\ (~w0.undo_log.exists \/ before \in {"undo", "undo_unlink_error"}))
    => result = UndoResult(ZeroUndo) /\ fs = w0.fs

\* C9 (amended): with no undo log perform_undo returns all zeros and changes
\* nothing; so a perform_undo right after an undo pass that read and removed its
\* log is a no-op.  (After a pass that could not remove the log, the log is
\* processed again.)
C9_NoLogNoOp ==
    (UndoReturned /\ (~w0.undo_log.exists \/ before = "undo"))
    => result = UndoResult(ZeroUndo) /\ World = w0

\* C9 witness: a real run has transferred files, an undo pass followed, and a
\* second perform_undo right after it has returned all zeros.
C9_Witness ==
    /\ UndoReturned
    /\ before = "undo"
    /\ faults = 0
    /\ ~kwargs.dry_run
    /\ moved # <<>>
    /\ result = UndoResult(ZeroUndo)

\* C10: once the cancel event is set, the file in progress is completed and
\* counted, no file whose processing had not begun is transferred, logged or
\* counted, and the run returns with processed < total if files remained
\* (processed = 0 if the event was set before the first file).
C10_Cancellation ==
    (last = "run" /\ cancel_event)
    => /\ stats.processed <= cancel_at
       /\ Len(undo_log.lines) - Len(w0.undo_log.lines) <= cancel_at
       /\ \A i \in (cancel_at + 1)..Len(files) :
             /\ is_file(files[i], World)
             /\ fs[files[i]] = w0.fs[files[i]]
             /\ files[i] \notin DOMAIN moved
       /\ pc = "idle"
          => /\ result.processed = cancel_at
             /\ result.total = Len(files)
             /\ cancel_at < Len(files) => result.processed < result.total

\* C10 witness: the event was set when one of two files had begun; the run has
\* returned with that file transferred and the other one left alone.
C10_Witness ==
    /\ RunReturned
    /\ cancel_event
    /\ cancel_at = 1
    /\ result.total = 2
    /\ result.processed = 1
    /\ result.succeeded = 1
    /\ ~kwargs.dry_run

\* A step of the loop body of process_directory that handles files[idx].
OrganizeStep == pc = "organize" /\ pc' # "organize"

CountersAgree(st) ==
    /\ st.processed = st.succeeded + st.failed + st.skipped
    /\ st.processed <= st.total

\* C11: the counters of a run, and every result process_directory returns,
\* satisfy processed = succeeded + failed + skipped and processed <= total, and
\* each file handled adds one to processed and to exactly one of succeeded,
\* failed and skipped.
C11_Counters ==
    /\ [](CountersAgree(stats) /\ (result.op = "run" => CountersAgree(result)))
    /\ [][OrganizeStep
          => /\ stats'.processed = stats.processed + 1
             /\ stats'.total = stats.total
             /\ \E c \in {"succeeded", "failed", "skipped"} :
                   /\ stats'[c] = stats[c] + 1
                   /\ \A d \in {"succeeded", "failed", "skipped"} \ {c} :
                         stats'[d] = stats[d]]_vars

\* C11 witness: a run of two files has returned, one file skipped and one failed.
C11_Witness ==
    /\ RunReturned
    /\ result.total = 2
    /\ result.processed = 2
    /\ result.skipped = 1
    /\ result.failed = 1

\* The arguments of the run are values the engine knows and paths it accepts.
KnownArguments ==
    /\ kwargs.source = source
    /\ kwargs.dest \in {dest, inside}
    /\ kwargs.mode \in {"type", "name", "date", "day", "size", "first_letter"}
    /\ kwargs.action \in {"move", "copy"}
    /\ kwargs.conflict_policy \in {"skip", "overwrite", "rename"}

\* C12 (as claimed): an operating-system error met while one file is handled never
\* ends the run: no exception leaves process_directory, and without cancellation
\* the run returns with processed = total.
C12_ErrorsRecoveredLocally ==
    (last = "run" /\ pc = "idle" /\ KnownArguments /\ ~cancel_event)
    => result.op = "run" /\ result.processed = result.total

\* C13 (as claimed): with an action other than move and copy no transfer is ever
\* reported as a success, in a dry run or a real one, and no file is counted as an
\* ordinary failure: the error is raised to the caller.
C13_UnknownActionIsFatal ==
    (last = "run" /\ kwargs.action \notin {"move", "copy"})
    => /\ stats.succeeded = 0
       /\ stats.failed = 0
       /\ (pc = "idle" /\ files # <<>>) => result.op = "raise"

\* C14 (as claimed): with a conflict policy other than skip, overwrite and rename
\* the resolver raises whether or not the destination exists, so that a run
\* transfers no file, whatever the mode.
C14_UnknownPolicyIsFatal ==
    (last = "run" /\ kwargs.conflict_policy \notin {"skip", "overwrite", "rename"})
    => /\ fs = w0.fs
       /\ undo_log = w0.undo_log
       /\ stats.succeeded = 0

\* The destination is a system directory or below one, or is the source, or the
\* source is missing or is not a directory, as the run found them.
InvalidPaths ==
    \/ \E sys_dir \in {<<"/", "usr">>, <<"/", "bin">>, <<"/", "sbin">>, <<"/", "etc">>} :
          kwargs.dest = sys_dir \/ IsPrefix(sys_dir \o <<"/">>, kwargs.dest)
    \/ kwargs.source = kwargs.dest
    \/ kwargs.source \notin w0.dirs

\* The run returned at once: zero counts and an error message, no file listed,
\* nothing changed in the file system or the undo log.
Refused ==
    /\ pc = "idle"
    /\ result = RunResult(ZeroStats, result.error)
    /\ result.error # ""
    /\ files = <<>>
    /\ World = w0

\* C15: when the destination is or is below a deny-listed system directory, or
\* equals the source, or the source does not exist or is not a directory,
\* process_directory returns zero counts with a non-empty error, lists, moves,
\* copies and creates nothing and leaves the undo log unchanged.
C15_ValidationPrecedesWork == (last = "run" /\ InvalidPaths) => Refused

\* C15 witness: a run on a source that holds files was given a destination
\* below /usr and has returned.
C15_Witness ==
    /\ RunReturned
    /\ kwargs.dest = <<"/", "usr", "/", "d">>
    /\ list_files(kwargs.source, TRUE, kwargs.dest, World) # {}
    /\ result.error # ""

\* C16: with a mode that has no classifier process_directory returns zero counts
\* with an error entry before any file is listed, transferred or counted.
C16_UnknownModeAborts ==
    (last = "run"
     /\ kwargs.mode \notin {"type", "name", "date", "day", "size", "first_letter"})
    => Refused

\* C16 witness: a run on a source that holds files was given the mode
\* "invalid_mode" and valid paths, and has returned.
C16_Witness ==
    /\ RunReturned
    /\ kwargs.mode = "invalid_mode"
    /\ ~InvalidPaths
    /\ list_files(kwargs.source, TRUE, kwargs.dest, World) # {}
    /\ result.error = "Unknown organization mode"

UnderDest(q) == IsPrefix(kwargs.dest \o <<"/">>, q)

\* C17: under the rename policy a transfer never overwrites or alters a file
\* that is at the destination; the file arrives at the plain destination p if p
\* is unused, and otherwise at "p (n)" for the first n for which "p (n)" is
\* unused: with p, "p (1)", .., "p (N)" present, at "p (N+1)".  So same-named
\* files transferred one after another end at distinct paths.
C17_RenameFirstUnused ==
    [][(OrganizeStep /\ kwargs.conflict_policy = "rename" /\ ~kwargs.dry_run)
       => /\ \A q \in DOMAIN fs : UnderDest(q) => q \in DOMAIN fs' /\ fs'[q] = fs[q]
          /\ stats'.succeeded = stats.succeeded + 1
             => \E d \in DOMAIN fs' \ DOMAIN fs :
                   LET p == Join(PathParent(d), PathName(files[idx]))
                   IN  /\ DOMAIN fs' \ DOMAIN fs = {d}
                       /\ UnderDest(d)
                       /\ fs'[d] = fs[files[idx]]
                       /\ IF p \notin DOMAIN fs THEN d = p
                          ELSE \E n \in 1..Len(Numbered) :
                                  /\ d = Candidate(p, n)
                                  /\ \A i \in 1..(n - 1) : Candidate(p, i) \in DOMAIN fs]_vars

\* C17 witness: three same-named files have been transferred into one folder
\* under the rename policy: p, "p (1)" and "p (2)" are there.
C17_Witness ==
    /\ RunReturned
    /\ kwargs.conflict_policy = "rename"
    /\ \E p \in DOMAIN fs :
          /\ UnderDest(p)
          /\ Candidate(p, 1) \in DOMAIN fs
          /\ Candidate(p, 2) \in DOMAIN fs

\* The destination the classifier computes for files[idx] (<<>> if none).
ComputedDestination ==
    organizer_func(files[idx], kwargs.dest, kwargs, ext_index_for(kwargs.mode),
                   World, NoError).dest_file

\* C18: under the skip policy, when the destination computed for a file already
\* exists (and no system call fails), the file is counted as skipped and not as
\* failed or succeeded, the file at the destination and the source file are left
\* as they are, nothing is created, and no line is added to the undo log.
C18_SkipLeavesBoth ==
    [][(/\ OrganizeStep
        /\ kwargs.conflict_policy = "skip"
        /\ faults' = faults
        /\ ComputedDestination # <<>>
        /\ exists(ComputedDestination, World))
       => /\ stats' = [stats EXCEPT !.processed = @ + 1, !.skipped = @ + 1]
          /\ fs' = fs
          /\ dirs' = dirs
          /\ undo_log' = undo_log
          /\ moved' = moved]_vars

\* C18 witness: a real run with action move and policy skip has returned: one
\* file was moved, the next one found that destination taken and was skipped, and
\* is still at its place in the source.
C18_Witness ==
    /\ RunReturned
    /\ kwargs.conflict_policy = "skip"
    /\ kwargs.action = "move"
    /\ ~kwargs.dry_run
    /\ ~kwargs.skip_unknown
    /\ result.succeeded = 1
    /\ result.skipped = 1
    /\ is_file(files[2], World)
    /\ Len(undo_log.lines) = Len(w0.undo_log.lines) + 1

\* In world w the undo log has a line of the latest run for the transfer of p.
HasRecord(p, w) ==
    \E k \in (Len(w0.undo_log.lines) + 1)..Len(w.undo_log.lines) :
       IsPrefix(<<upper(kwargs.action), "|">> \o p \o <<"|">>, w.undo_log.lines[k])

\* The files the latest run has transferred that have no line in world w.
Unrecorded(w) == {p \in DOMAIN moved : ~HasRecord(p, w)}

\* The file the latest run transferred last.
MostRecent ==
    LET done == {i \in 1..stats.processed : files[i] \in DOMAIN moved}
    IN  files[CHOOSE i \in done : \A j \in done : j <= i]

\* C19 (as claimed): at every point of a real run every file already transferred
\* has its line in the undo log, except at most the one transferred last.
C19_AllButLastRecorded ==
    (last = "run" /\ ~kwargs.dry_run)
    => \A p \in DOMAIN moved : HasRecord(p, World) \/ p = MostRecent

\* C19 (amended): in a real run every file already transferred has its line in
\* the undo log, except the files whose append failed and, between its transfer
\* and its append, the file being handled; and an append leaves every earlier
\* line, of this run and of earlier ones, as it was.  Checked before and after
\* each file and, for each outcome the next file can have, at the call of
\* log_undo_operation.
C19_LogKeepsUp ==
    (last = "run" /\ ~kwargs.dry_run)
    => /\ Cardinality(Unrecorded(World)) = lost
       /\ IsPrefix(w0.undo_log.lines, undo_log.lines)
       /\ pc = "organize"
          => \A os \in OneFault :
                LET r == organizer_func(files[idx], kwargs.dest, kwargs,
                                        ext_index_for(kwargs.mode), World, os)
                IN  /\ IsPrefix(undo_log.lines, r.mid.undo_log.lines)
                    /\ IsPrefix(r.mid.undo_log.lines, r.w.undo_log.lines)
                    /\ Len(r.w.undo_log.lines) <= Len(undo_log.lines) + 1
                    /\ Unrecorded(r.mid) \subseteq Unrecorded(World)
                    /\ Unrecorded(r.w) \subseteq Unrecorded(World)
                    /\ (r.result = "True" /\ ~os.log)
                       => IsPrefix(<<upper(kwargs.action), "|">> \o files[idx] \o <<"|">>,
                                   r.w.undo_log.lines[Len(r.w.undo_log.lines)])

\* C19 witness: a real run that began with a log of an earlier run has
\* transferred two files; both have their lines, after the earlier ones.
C19_Witness ==
    /\ last = "run"
    /\ ~kwargs.dry_run
    /\ w0.undo_log.lines # <<>>
    /\ Cardinality(DOMAIN moved) = 2
    /\ Unrecorded(World) = {}
    /\ Len(undo_log.lines) = Len(w0.undo_log.lines) + 2

\* C20: no file that process_directory lists is the destination or lies below
\* it at any depth, also when the destination is inside the source and the source
\* is walked recursively; so a run never picks up a file located in its
\* destination.
C20_DestinationExcluded ==
    last = "run"
    => \A i \in 1..Len(files) :
          /\ files[i] # kwargs.dest
          /\ ~IsPrefix(kwargs.dest \o <<"/">>, files[i])

\* C20 witness: a recursive run whose destination is inside its source, and
\* already held files below it, has listed the files of the source.
C20_Witness ==
    /\ last = "run"
    /\ kwargs.dest = inside
    /\ kwargs.recursive
    /\ files # <<>>
    /\ \E q \in DOMAIN w0.fs : IsPrefix(inside \o <<"/">>, q)

\* The positions of the categories of m that list the extension e as it is
\* written / that list a non-empty extension whose lower-cased form is e_lower.
Listing(m, e) == {i \in 1..Len(m) : e \in m[i].exts}
ListingLowered(m, e_lower) ==
    {i \in 1..Len(m) : \E e \in m[i].exts : e # "" /\ lower(e) = e_lower}

Earliest(S) == CHOOSE i \in S : \A j \in S : i <= j

\* C21 (as claimed): every extension that appears in any category of the map is
\* a key of the index build_ext_index returns, mapped to the category that listed
\* it first, and every later listing of it is among the reported duplicates.
C21_NoExtensionDropped ==
    index_result.kind = "return"
    => LET m == index_result.categories
       IN  \A i \in 1..Len(m) : \A e \in m[i].exts :
              /\ e \in DOMAIN index_result.idx
              /\ index_result.idx[e] = m[Earliest(Listing(m, e))].cat
              /\ i > Earliest(Listing(m, e))
                 => \E d \in DOMAIN index_result.duplicates : d.ext = e /\ d.cat = m[i].cat

\* C21 (amended): the keys of the index are the lower-cased forms of the
\* non-empty extensions of the map, and no others; each is mapped to the first
\* category, in the order of the map, that lists an extension with that
\* lower-cased form; an empty extension gives no key; and every other listing of
\* a form is reported once, with the form, the category that has it and the
\* category that lists it again.
C21_LowerCasedFirstWins ==
    index_result.kind = "return"
    => LET m == index_result.categories
           index == index_result.idx
           duplicates == index_result.duplicates
           Written(i, e_lower) ==
               Cardinality({e \in m[i].exts : e # "" /\ lower(e) = e_lower})
       IN  /\ DOMAIN index =
                 {lower(e) : e \in UNION {m[i].exts : i \in 1..Len(m)} \ {""}}
           /\ \A k \in DOMAIN index :
                 index[k] = m[Earliest(ListingLowered(m, k))].cat
           /\ \A i \in 1..Len(m) : \A k \in DOMAIN index :
                 LET first == Earliest(ListingLowered(m, k))
                     report == [ext |-> k, first |-> m[first].cat, cat |-> m[i].cat]
                     times == IF i = first THEN Written(i, k) - 1 ELSE Written(i, k)
                 IN  IF times > 0
                     THEN report \in DOMAIN duplicates /\ duplicates[report] = times
                     ELSE \A d \in DOMAIN duplicates : ~(d.ext = k /\ d.cat = m[i].cat)
           /\ \A d \in DOMAIN duplicates : d.ext \in DOMAIN index /\ d.first = index[d.ext]

\* C21 witness: the index of a map of three categories has been built; the first
\* lists ".JPG", the second ".jpg" and an empty extension, the third both forms:
\* one key, the first category, and two categories reported.
C21_Witness ==
    /\ index_result.kind = "return"
    /\ Len(index_result.categories) = 3
    /\ index_result.categories[1].exts = {".JPG"}
    /\ index_result.categories[2].exts = {".jpg", ""}
    /\ index_result.categories[3].exts = {".jpg", ".JPG"}
    /\ DOMAIN index_result.idx = {".jpg"}
    /\ index_result.idx[".jpg"] = index_result.categories[1].cat
    /\ Cardinality(DOMAIN index_result.duplicates) = 2

\* C22 (as claimed): for every state of the persisted document load_categories
\* returns a map that has the category "Others"; when the document is unreadable
\* or malformed (not text, not JSON, JSON of the wrong shape) it returns the
\* defaults without raising and leaves the document as it was.
C22_LoadAlwaysReturns ==
    load_result.kind # "none"
    => /\ load_result.kind = "return"
       /\ HasCategory(load_result.value, "Others")
       /\ load_result.file_before.kind \in {"unreadable", "not_text", "not_json",
                                            "wrong_shape"}
          => /\ load_result.value = DEFAULT_CATEGORIES
             /\ categories_file = load_result.file_before

\* The categories of DEFAULT_CATEGORIES that list the extension e_lower.
DefaultCategoriesOf(e_lower) ==
    {DEFAULT_CATEGORIES[i].cat : i \in {j \in 1..Len(DEFAULT_CATEGORIES) :
                                           e_lower \in DEFAULT_CATEGORIES[j].exts}}

\* C23: in mode type the lower-cased extension of the file decides.  If a
\* category lists it, the destination is dest/<category>/<filename>; if none does
\* and skip_unknown is set, the file is counted as skipped and nothing is moved,
\* copied, created or logged; if none does and skip_unknown is not set, the
\* destination is dest/Others/<filename>.  A file transferred to a free
\* destination is there afterwards, with its content.
C23_TypeClassifier ==
    [][(OrganizeStep /\ kwargs.mode = "type")
       => LET file == files[idx]
              cats == DefaultCategoriesOf(lower(PathSuffix(file)))
              Destination(cat) == Join(Join(kwargs.dest, <<cat>>), PathName(file))
          IN  /\ cats # {}
                 => \E cat \in cats :
                       /\ cats = {cat}
                       /\ ComputedDestination = Destination(cat)
              /\ (cats = {} /\ kwargs.skip_unknown)
                 => /\ ComputedDestination = <<>>
                    /\ stats' = [stats EXCEPT !.processed = @ + 1, !.skipped = @ + 1]
                    /\ fs' = fs
                    /\ dirs' = dirs
                    /\ undo_log' = undo_log
                    /\ moved' = moved
              /\ (cats = {} /\ ~kwargs.skip_unknown)
                 => ComputedDestination = Destination("Others")
              /\ (/\ stats'.succeeded = stats.succeeded + 1
                  /\ ~kwargs.dry_run
                  /\ ~exists(ComputedDestination, World))
                 => /\ is_file(ComputedDestination, [fs |-> fs', dirs |-> dirs'])
                    /\ fs'[ComputedDestination] = fs[file]]_vars

\* C23 witness: a real run in mode type with skip_unknown set has returned: the
\* file without an extension was skipped and is still in the source, the file
\* with the extension ".JPG" is under dest/Images.
C23_Witness ==
    /\ RunReturned
    /\ kwargs.mode = "type"
    /\ kwargs.skip_unknown
    /\ ~kwargs.dry_run
    /\ result.skipped = 1
    /\ result.succeeded = 1
    /\ is_file(Join(source, <<"7", " ">>), World)
    /\ is_file(Join(Join(dest, <<"Images">>), <<"p", "|", "q", ".JPG">>), World)

\* C24 (as claimed): the line log_undo_operation writes for a transfer is parsed
\* back by perform_undo (line.strip().split('|')) into the same action, source
\* path and destination path, whatever characters the paths hold, so that the
\* file can be found at the parsed destination.  Stated for the files the latest
\* run transferred, under the rename policy and without any error.
C24_RecordRoundTrip ==
    (last = "run" /\ fresh /\ ~kwargs.dry_run /\ faults = 0
     /\ kwargs.conflict_policy = "rename")
    => \A p \in DOMAIN moved :
          \E k \in 1..Len(undo_log.lines) :
             LET parts == split(strip(undo_log.lines[k]), "|")
             IN  /\ Len(parts) = 3
                 /\ parts[1] = upper(kwargs.action)
                 /\ parts[2] = p
                 /\ is_file(parts[3], World)
                 /\ fs[parts[3]] = moved[p]
                 /\ LogLine(kwargs.action, parts[2], parts[3]) = undo_log.lines[k]

\* A step of perform_undo that handles one line of the log.
UndoStep == pc = "undo" /\ uidx' = uidx + 1

\* C25 (as claimed): when perform_undo handles a record and a file exists at the
\* record's original source path, that file is still there afterwards, with the
\* content it had.
C25_UndoKeepsExistingSource ==
    [][UndoStep
       => LET parts == split(strip(reversed(lines)[uidx]), "|")
          IN  (Len(parts) = 3 /\ is_file(parts[2], World))
              => /\ parts[2] \in DOMAIN fs'
                 /\ fs'[parts[2]] = fs[parts[2]]]_vars

\* C26 (as claimed): under the overwrite policy a file that a real run counts as
\* failed costs nothing at the destination: every file that was under the
\* destination before the file was handled is still there, with its content.
C26_FailedOverwriteKeepsTarget ==
    [][(/\ OrganizeStep
        /\ kwargs.conflict_policy = "overwrite"
        /\ ~kwargs.dry_run
        /\ stats'.failed = stats.failed + 1)
       => \A q \in DOMAIN fs :
             UnderDest(q) => q \in DOMAIN fs' /\ fs'[q] = fs[q]]_vars

\* The worker threads that are running.
Running == {i \in 1..Len(workers) : isRunning(workers[i])}

\* C27 (as claimed): in the GUI at most one engine operation uses the undo log
\* at a time: never are two workers (a run and an undo pass, two undo passes, two
\* runs) in progress together.
C27_OneOperationAtATime == Cardinality(Running) <= 1

\* C28 (as claimed): whenever the OrganizerWorker that run_organizer has started
\* is running, cancel_action is enabled.
C28_CancelReachable ==
    (organizer_worker # 0 /\ isRunning(workers[organizer_worker]))
    => enabled.cancel_action

\* C29 (as claimed): run_organizer with the dry-run box checked leaves the undo
\* log as it was.
C29_DryRunKeepsUndoLog ==
    [][(/\ Len(workers') = Len(workers) + 1
        /\ workers'[Len(workers')].kind = "organizer"
        /\ workers'[Len(workers')].dry_run)
       => undo_log' = undo_log]_vars

\* C30 (as claimed): the statistics an OrganizerWorker emits with finished after
\* its cancel event was set are the counters of the files it has handled:
\* processed = succeeded + failed + skipped = number of files handled.
C30_CancelledStatistics ==
    \A k \in 1..Len(signals) :
       (signals[k].kind = "organizer" /\ signals[k].cancelled)
       => /\ signals[k].stats.processed = workers[signals[k].from].stats.processed
          /\ signals[k].stats.succeeded = workers[signals[k].from].stats.succeeded
          /\ signals[k].stats.failed = workers[signals[k].from].stats.failed
          /\ signals[k].stats.skipped = workers[signals[k].from].stats.skipped

====
